---------------------------- MODULE Spec2Model ----------------------------
(***************************************************************************)
(* A model of three pieces of the gtsam sources:                           *)
(*   - NonlinearInequalityFactorGraph (linearize and the KKT check),       *)
(*   - Pose2SLAMOptimizer (constructor and the two update entry points),   *)
(*   - CalibratedCamera::project and its CheiralityException.              *)
(* Real numbers are modelled by small integers; a double tolerance by a    *)
(* non-negative integer.                                                   *)
(***************************************************************************)
EXTENDS Integers, Sequences, FiniteSets

VARIABLES
    graph,      \* NonlinearInequalityFactorGraph: the sequence of factors
    values,     \* the Values the graph is evaluated at
    call,       \* the last call made on the graph and what it produced
    pc,         \* Pose2SLAMOptimizer: position in the constructor / "ready"
    graph_,     \* Pose2SLAMOptimizer::graph_
    theta_,     \* Pose2SLAMOptimizer::theta_
    solver_,    \* Pose2SLAMOptimizer::solver_
    last,       \* the last update entry point called and what it handed on
    pose_,      \* PinholeBase::pose_
    projected   \* the last project call and its outcome

ineqVars == <<graph, values, call>>
optVars == <<pc, graph_, theta_, solver_, last>>
camVars == <<pose_, projected>>
vars == <<graph, values, call, pc, graph_, theta_, solver_, last,
          pose_, projected>>

(***************************************************************************)
(* Bounds of the model.                                                    *)
(***************************************************************************)
MaxFactors == 2
MaxDim == 2
MaxPoses == 2
MaxCoord == 1

Abs(n) == IF n < 0 THEN -n ELSE n

(***************************************************************************)
(* Part 1.  NonlinearInequalityFactorGraph                                 *)
(***************************************************************************)

\* Variable keys, dual keys and the numbers the inputs are drawn from.
Keys == {"x1"}
DualKeys == {"l1", "l2"}
Vals == {-2, 0, 2}
Offsets == {0, 2}
Tols == {0, 1}

\* The residual of a factor: the constraint  x - c[k] <= 0  per component.
OffsetVectors == UNION {[1..d -> Offsets] : d \in 1..MaxDim}

\* A factor of the graph.  isNoiseModel / isConstraint say which of the two
\* dynamic casts succeed on it, linJacobian whether its linearization is a
\* JacobianFactor.
Factor(nm, con, jac, k, dk, c) ==
    [isNoiseModel |-> nm, isConstraint |-> con, linJacobian |-> jac,
     key |-> k, dualKey |-> dk, c |-> c]

\* Factors of the constrained subtype: every cast succeeds on them.
Constraints ==
    {Factor(TRUE, TRUE, TRUE, k, dk, c) :
        k \in Keys, dk \in DualKeys, c \in OffsetVectors}

\* Factors on which one of the casts fails.
OtherFactors ==
    {Factor(TRUE, FALSE, TRUE, "x1", "l1", <<0>>),
     Factor(FALSE, FALSE, TRUE, "x1", "l1", <<0>>),
     Factor(TRUE, TRUE, FALSE, "x1", "l1", <<0>>)}

Factors == Constraints \cup OtherFactors

Graphs == UNION {[1..n -> Factors] : n \in 0..MaxFactors}

WellTyped(f) == f.isNoiseModel /\ f.isConstraint /\ f.linJacobian

\* NoiseModelFactor::unwhitenedError(values)
unwhitenedError(f, vals) == [k \in 1..Len(f.c) |-> vals[f.key] - f.c[k]]

\* NonlinearFactor::linearize(point): the Jacobian block and the negated
\* residual at the point, or a factor of another linear type.
factorLinearize(f, point) ==
    IF f.linJacobian
    THEN [type |-> "Jacobian", key |-> f.key, A |-> 1,
          b |-> [k \in 1..Len(f.c) |-> -(point[f.key] - f.c[k])]]
    ELSE [type |-> "Hessian", key |-> f.key]

\* VectorValues::exists
exists(duals, key) == key \in DOMAIN duals

\* The dual maps: some dual keys, each with a multiplier.
DualMaps == UNION {[S -> {1}] : S \in SUBSET DualKeys}

\* What a call that dereferences a null pointer can do: it aborts, or it
\* goes on with whatever it read and returns either answer.
Returned(v) == [kind |-> "returned", value |-> v]
Crashed == [kind |-> "crashed"]
CheckUB == {Crashed, Returned(TRUE), Returned(FALSE)}

\* The error component the check reads: error[0]
FirstComponent(error) == error[1]

\* The primal test with the comparison turned round.
PrimalViolated_SignSlip(error, tol) == FirstComponent(error) < -tol

\* Primal feasibility test of one factor (line 42)
PrimalViolated(error, tol) == FirstComponent(error) > tol

\* The complementarity test without fabs.
ComplementarityViolated_NoAbs(error, tol) == FirstComponent(error) > tol

\* Complementarity test of one active factor (line 51)
ComplementarityViolated(error, tol) == Abs(FirstComponent(error)) > tol

\* The inactivity test with its negation dropped.
Inactive_Negated(duals, factor) == exists(duals, factor.dualKey)

\* The test for an inactive constraint (line 50)
Inactive(duals, factor) == ~exists(duals, factor.dualKey)

\* The loop of checkFeasibilityAndComplimentary from factor i on: the set of
\* outcomes the call can have.
RECURSIVE CheckFrom(_, _, _, _, _)
CheckFrom(g, i, vals, duals, tol) ==
    IF i > Len(g) THEN {Returned(TRUE)}
    ELSE LET factor == g[i] IN
         IF ~factor.isNoiseModel THEN CheckUB
         ELSE LET error == unwhitenedError(factor, vals) IN
              IF PrimalViolated(error, tol) THEN {Returned(FALSE)}
              ELSE IF ~factor.isConstraint THEN CheckUB
              ELSE IF Inactive(duals, factor)
                   THEN CheckFrom(g, i + 1, vals, duals, tol)
              ELSE IF ComplementarityViolated(error, tol)
                   THEN {Returned(FALSE)}
              ELSE CheckFrom(g, i + 1, vals, duals, tol)

checkFeasibilityAndComplimentary(g, vals, duals, tol) ==
    CheckFrom(g, 1, vals, duals, tol)

\* LinearInequality(jacobian, dualKey)
LinearInequality(jacobian, dualKey) ==
    [jacobian |-> jacobian, dualKey |-> dualKey]

\* LinearInequalityFactorGraph::add
linearGraphAdd(linearGraph, ineq) == Append(linearGraph, ineq)

\* The loop body of linearize handing on the variable's key as dual key.
LinearizeOne_KeyAsDual(factor, point) ==
    LET jacobian == factorLinearize(factor, point) IN
    IF jacobian.type = "Jacobian" /\ factor.isConstraint
    THEN {LinearInequality(jacobian, factor.key)}
    ELSE {Crashed} \cup
         {LinearInequality([type |-> "garbage"], dk) : dk \in DualKeys}

\* What one pass of the loop body of linearize can add for a factor: the
\* inequality, or, when a cast failed, what a null dereference leaves.
LinearizeOne(factor, point) ==
    LET jacobian == factorLinearize(factor, point) IN
    IF jacobian.type = "Jacobian" /\ factor.isConstraint
    THEN {LinearInequality(jacobian, factor.dualKey)}
    ELSE {Crashed} \cup
         {LinearInequality([type |-> "garbage"], dk) : dk \in DualKeys}

\* The loop of linearize from factor i on, linearGraph being what was added
\* so far: the set of outcomes.
RECURSIVE LinearizeFrom(_, _, _, _)
LinearizeFrom(g, i, point, linearGraph) ==
    IF i > Len(g) THEN {Returned(linearGraph)}
    ELSE UNION {IF one = Crashed THEN {Crashed}
                ELSE LinearizeFrom(g, i + 1, point,
                                   linearGraphAdd(linearGraph, one)) :
                one \in LinearizeOne(g[i], point)}

linearize(g, point) == LinearizeFrom(g, 1, point, <<>>)

NoCall == [op |-> "none"]

\* A call of checkFeasibilityAndComplimentary(values, duals, tol)
CheckFeasibility ==
    /\ \E duals \in DualMaps, tol \in Tols :
         \E r \in checkFeasibilityAndComplimentary(graph, values, duals, tol) :
            call' = [op |-> "check", duals |-> duals, tol |-> tol,
                     result |-> r]
    /\ UNCHANGED <<graph, values>>

\* A call of linearize(values)
Linearize ==
    /\ \E r \in linearize(graph, values) :
            call' = [op |-> "linearize", result |-> r]
    /\ UNCHANGED <<graph, values>>

IneqInit ==
    /\ graph \in Graphs
    /\ values \in [Keys -> Vals]
    /\ call = NoCall

IneqIdle == graph = <<>> /\ values = [k \in Keys |-> 0] /\ call = NoCall

(***************************************************************************)
(* Part 2.  Pose2SLAMOptimizer                                             *)
(***************************************************************************)

\* Dimension of a Pose2 tangent vector: noiseModel::Unit::Create(3)
PoseDim == 3

PoseKeys == 1..MaxPoses
InitPoses == {<<0, 0, 0>>, <<1, 0, 0>>}

\* The last key of a Values instead of the first.
LastKey(theta) == CHOOSE k \in DOMAIN theta : \A j \in DOMAIN theta : k >= j

\* The first key of a Values: theta_->begin()->first
FirstKey(theta) == CHOOSE k \in DOMAIN theta : \A j \in DOMAIN theta : k <= j

\* The measurement factors load2D reads for a set of poses: one odometry
\* factor between each pose and the next.
RECURSIVE Odometry(_)
Odometry(S) ==
    IF Cardinality(S) < 2 THEN <<>>
    ELSE LET k == CHOOSE i \in S : \A j \in S : i <= j
             rest == S \ {k}
             n == CHOOSE i \in rest : \A j \in rest : i <= j
         IN <<[type |-> "between", keys |-> <<k, n>>]>> \o Odometry(rest)

\* The initial estimates a dataset can hold: some poses, each with a value.
Estimates == UNION {[T -> InitPoses] : T \in SUBSET PoseKeys}

\* load2D(filename, maxID, noiseModel, addNoise): what it can return, a
\* graph and an initial estimate.
load2D == {[graph |-> Odometry(DOMAIN th), theta |-> th] : th \in Estimates}

\* noiseModel::Unit::Create(dim)
UnitCreate(dim) == [type |-> "Unit", dim |-> dim]

\* Pose2Graph::addPrior(key, pose, model)
addPrior(g, key, pose, model) ==
    Append(g, [type |-> "prior", key |-> key, prior |-> pose,
               model |-> model])

\* The priors the constructor can add to the graph (lines 31-32); on an
\* empty theta_ the begin() iterator is dereferenced past the end, and the
\* prior is built from whatever is read.
PriorAdded(g, theta) ==
    IF DOMAIN theta # {}
    THEN {addPrior(g, FirstKey(theta), theta[FirstKey(theta)],
                   UnitCreate(PoseDim))}
    ELSE {addPrior(g, k, p, UnitCreate(PoseDim)) :
             k \in PoseKeys, p \in InitPoses}

\* solver_.initialize(graph, theta)
initialize(g, theta) == [initialized |-> TRUE, graph |-> g, theta |-> theta]

\* Pose2 retract of one pose by a tangent vector
PoseRetract(pose, d) == [i \in 1..PoseDim |-> pose[i] + d[i]]

\* Values retract by a tangent map: the poses the map names move.
retract(theta, X) ==
    [k \in DOMAIN theta |->
        IF k \in DOMAIN X THEN PoseRetract(theta[k], X[k]) ELSE theta[k]]

\* The default-constructed VectorConfig and Vector
EmptyConfig == [k \in {} |-> <<>>]
EmptyVector == <<>>

\* The correction vectors a caller can supply for an estimate of n poses.
Corrections(theta) == [1..(PoseDim * Cardinality(DOMAIN theta)) -> {0, 1}]

\* update(const VectorConfig& X): the retract step
updateConfig(theta, X) == retract(theta, X)

\* The tangent map update(const Vector& x) hands to the retract step
\* (line 40: a default-constructed VectorConfig)
updateTangent(x) == EmptyConfig

\* The vector updatePreconditioned(const Vector& y) hands to update
\* (line 46: a default-constructed Vector)
updatePreconditionedVector(y) == EmptyVector

NoUpdate == [op |-> "none"]

Load ==
    /\ pc = "start"
    /\ \E d \in load2D : graph_' = d.graph /\ theta_' = d.theta
    /\ pc' = "loaded"
    /\ UNCHANGED <<solver_, last>>

AddPrior ==
    /\ pc = "loaded"
    /\ \/ /\ graph_' \in PriorAdded(graph_, theta_)
          /\ pc' = "priorAdded"
       \/ /\ DOMAIN theta_ = {}
          /\ pc' = "crashed"
          /\ UNCHANGED graph_
    /\ UNCHANGED <<theta_, solver_, last>>

InitializeSolver ==
    /\ pc = "priorAdded"
    /\ solver_' = initialize(graph_, theta_)
    /\ pc' = "ready"
    /\ UNCHANGED <<graph_, theta_, last>>

\* Pose2SLAMOptimizer::update(const Vector& x)
Update ==
    /\ pc = "ready"
    /\ \E x \in Corrections(theta_) :
         LET X == updateTangent(x) IN
         /\ theta_' = updateConfig(theta_, X)
         /\ last' = [op |-> "update", arg |-> x, x |-> x, X |-> X,
                     before |-> theta_]
    /\ UNCHANGED <<pc, graph_, solver_>>

\* Pose2SLAMOptimizer::updatePreconditioned(const Vector& y)
UpdatePreconditioned ==
    /\ pc = "ready"
    /\ \E y \in Corrections(theta_) :
         LET x == updatePreconditionedVector(y)
             X == updateTangent(x)
         IN /\ theta_' = updateConfig(theta_, X)
            /\ last' = [op |-> "updatePreconditioned", arg |-> y, x |-> x,
                        X |-> X, before |-> theta_]
    /\ UNCHANGED <<pc, graph_, solver_>>

OptInit ==
    /\ pc = "start"
    /\ graph_ = <<>>
    /\ theta_ = EmptyConfig
    /\ solver_ = [initialized |-> FALSE]
    /\ last = NoUpdate

(***************************************************************************)
(* Part 3.  CalibratedCamera::project                                      *)
(***************************************************************************)

Coords == -MaxCoord..MaxCoord
Points == {<<x, y, z>> : x \in Coords, y \in Coords, z \in Coords}

\* Rotations, as rows: the identity, a half turn about the x axis, and the
\* camera looking down the world's +X axis.
Rotations ==
    {<<<<1, 0, 0>>, <<0, 1, 0>>, <<0, 0, 1>>>>,
     <<<<1, 0, 0>>, <<0, -1, 0>>, <<0, 0, -1>>>>,
     <<<<0, 0, 1>>, <<-1, 0, 0>>, <<0, -1, 0>>>>}

Translations == {<<0, 0, 0>>, <<0, 0, 1>>}

\* Pose3::transform_to(point): R^T (point - t)
transform_to(pose, point) ==
    LET d == [i \in 1..3 |-> point[i] - pose.t[i]] IN
    [j \in 1..3 |->
        pose.R[1][j] * d[1] + pose.R[2][j] * d[2] + pose.R[3][j] * d[3]]

\* A quotient a / b, kept as the pair
Quot(a, b) == <<a, b>>

\* PinholeBase::project_to_camera(P): division by the depth
project_to_camera(q) == [x |-> Quot(q[1], q[3]), y |-> Quot(q[2], q[3])]

Thrown(e) == [kind |-> "thrown", what |-> e]

\* The cheirality test letting zero depth through.
BehindCamera_Strict(q) == q[3] < 0

\* The cheirality test of project on the depth in camera coordinates
BehindCamera(q) == q[3] <= 0

\* CalibratedCamera::project(point)
project(pose, point) ==
    LET q == transform_to(pose, point) IN
    IF BehindCamera(q) THEN Thrown("CheiralityException")
    ELSE Returned(project_to_camera(q))

NoProjection == [op |-> "none"]

\* A call of project(point)
Project ==
    /\ \E point \in Points :
         projected' = [op |-> "project", point |-> point,
                       result |-> project(pose_, point)]
    /\ UNCHANGED pose_

CamInit ==
    /\ pose_ \in {[R |-> r, t |-> t] : r \in Rotations, t \in Translations}
    /\ projected = NoProjection

(***************************************************************************)
(* Specifications: one per component, the other components at rest.       *)
(***************************************************************************)

OptIdle == OptInit
CamIdle ==
    /\ pose_ = [R |-> <<<<1, 0, 0>>, <<0, 1, 0>>, <<0, 0, 1>>>>,
                t |-> <<0, 0, 0>>]
    /\ projected = NoProjection

IneqNext ==
    \/ CheckFeasibility /\ UNCHANGED <<optVars, camVars>>
    \/ Linearize /\ UNCHANGED <<optVars, camVars>>

OptNext ==
    \/ Load /\ UNCHANGED <<ineqVars, camVars>>
    \/ AddPrior /\ UNCHANGED <<ineqVars, camVars>>
    \/ InitializeSolver /\ UNCHANGED <<ineqVars, camVars>>
    \/ Update /\ UNCHANGED <<ineqVars, camVars>>
    \/ UpdatePreconditioned /\ UNCHANGED <<ineqVars, camVars>>

CamNext == Project /\ UNCHANGED <<ineqVars, optVars>>

InitIneq == IneqInit /\ OptIdle /\ CamIdle
InitOpt == IneqIdle /\ OptInit /\ CamIdle
InitCam == IneqIdle /\ OptIdle /\ CamInit

SpecIneq == InitIneq /\ [][IneqNext]_vars
SpecOpt == InitOpt /\ [][OptNext]_vars
SpecCam == InitCam /\ [][CamNext]_vars

(***************************************************************************)
(* Properties of NonlinearInequalityFactorGraph (under SpecIneq)           *)
(***************************************************************************)

\* Every factor of the graph is of the constrained subtype.
ConstraintGraph == \A i \in 1..Len(graph) : WellTyped(graph[i])

\* The constraint value of factor i at the values: error[0]
Err(i) == unwhitenedError(graph[i], values)[1]

\* Factor i's dual key is in the dual map of the last check.
Active(i) == graph[i].dualKey \in DOMAIN call.duals

Checked == call.op = "check" /\ ConstraintGraph

\* C1: the check returns false whenever some constraint of the graph has an
\* error greater than tol, whatever the dual map holds and wherever the
\* violating constraint stands in the graph.
C1_InfeasibleReturnsFalse ==
    (Checked /\ \E i \in 1..Len(graph) : Err(i) > call.tol)
        => call.result = Returned(FALSE)

\* C1 witness: the violating constraint is the last of two, the first one
\* passes both tests, and the check has answered false.
C1_Witness ==
    /\ Checked
    /\ Len(graph) = 2
    /\ Err(1) <= call.tol
    /\ ~Active(1)
    /\ Err(2) > call.tol
    /\ ~Active(2)
    /\ call.result = Returned(FALSE)

\* C2: with a dual map that has no entries and every constraint's error at
\* most tol (however far below -tol), the check returns true; so it does on
\* the empty graph.
C2_NoDualsFeasibleReturnsTrue ==
    (/\ Checked
     /\ DOMAIN call.duals = {}
     /\ \A i \in 1..Len(graph) : Err(i) <= call.tol)
        => call.result = Returned(TRUE)

\* C2 witness: two constraints, one of them with an error below -tol, no
\* duals, and the check has answered true.
C2_Witness ==
    /\ Checked
    /\ DOMAIN call.duals = {}
    /\ Len(graph) = 2
    /\ Err(1) < -call.tol
    /\ Err(2) <= call.tol
    /\ call.result = Returned(TRUE)

\* C3: when every constraint is primal-feasible, the check returns true
\* exactly if every constraint whose dual key is in the dual map has
\* |error| <= tol, and false otherwise: an absent dual key never makes it
\* false, a present one with error < -tol does.
C3_ComplementarySlackness ==
    (Checked /\ \A i \in 1..Len(graph) : Err(i) <= call.tol)
        => /\ call.result \in {Returned(TRUE), Returned(FALSE)}
           /\ call.result = Returned(TRUE)
                <=> \A i \in 1..Len(graph) :
                        Active(i) => Abs(Err(i)) <= call.tol

\* C3 witness: an inactive constraint far below -tol is passed over, an
\* active one below -tol follows it, and the check has answered false.
C3_Witness ==
    /\ Checked
    /\ Len(graph) = 2
    /\ Err(1) < -call.tol /\ ~Active(1)
    /\ Err(2) < -call.tol /\ Active(2)
    /\ call.result = Returned(FALSE)

\* C4: on a graph holding a factor that is not of the constrained subtype,
\* linearize and the check both report a type-mismatch error.
C4_TypeMismatchReported ==
    (/\ call.op \in {"check", "linearize"}
     /\ \E i \in 1..Len(graph) : ~WellTyped(graph[i]))
        => call.result = Thrown("TypeMismatch")

\* The result of linearize on a graph of constraints: one LinearInequality
\* per factor, in the order of the graph, the i-th built from the i-th
\* factor's Jacobian at the point and carrying the i-th factor's dual key.
C5_Result ==
    (call.op = "linearize" /\ ConstraintGraph)
        => /\ call.result.kind = "returned"
           /\ Len(call.result.value) = Len(graph)
           /\ \A i \in 1..Len(graph) :
                /\ call.result.value[i].dualKey = graph[i].dualKey
                /\ call.result.value[i].jacobian
                     = factorLinearize(graph[i], values)
                /\ call.result.value[i].jacobian.type = "Jacobian"

\* C5: linearize returns one LinearInequality per factor of the graph, in
\* order, each with its factor's Jacobian at the point and its dual key, and
\* a call leaves the graph and the linearization point as they were.
C5_LinearizePerFactor ==
    /\ []C5_Result
    /\ [][graph' = graph /\ values' = values]_vars

\* C5 witness: a graph of two constraints with different dual keys and
\* different Jacobian factors has been linearized.
C5_Witness ==
    /\ call.op = "linearize"
    /\ ConstraintGraph
    /\ Len(graph) = 2
    /\ graph[1].dualKey # graph[2].dualKey
    /\ factorLinearize(graph[1], values) # factorLinearize(graph[2], values)
    /\ call.result.kind = "returned"

\* C10: for constraints with several error components, the check answers
\* false if any component exceeds tol and, for a constraint whose dual key
\* is present, if any component has magnitude greater than tol.
C10_EveryComponentTested ==
    Checked =>
        \A i \in 1..Len(graph) :
            LET error == unwhitenedError(graph[i], values) IN
            \A k \in 1..Len(error) :
                (\/ error[k] > call.tol
                 \/ Active(i) /\ Abs(error[k]) > call.tol)
                    => call.result = Returned(FALSE)

(***************************************************************************)
(* Properties of Pose2SLAMOptimizer (under SpecOpt)                        *)
(***************************************************************************)

\* The keys of a Values in increasing order
RECURSIVE KeyOrder(_)
KeyOrder(S) ==
    IF S = {} THEN <<>>
    ELSE LET k == CHOOSE i \in S : \A j \in S : i <= j
         IN <<k>> \o KeyOrder(S \ {k})

\* The per-variable tangent map of a correction vector: the r-th variable
\* takes the r-th block of PoseDim entries.
VectorToConfig(x, keys) ==
    LET order == KeyOrder(keys) IN
    [k \in keys |->
        LET r == CHOOSE j \in 1..Len(order) : order[j] = k
        IN [i \in 1..PoseDim |-> x[PoseDim * (r - 1) + i]]]

\* The preconditioner's map from its coordinates back to the graph's: a
\* linear change of coordinates of the same dimension.
NativeCoordinates(y) == [i \in 1..Len(y) |-> 2 * y[i]]

\* C6: update(x) hands the retract step the per-variable tangent map of x,
\* and the Values after the call are the previous Values retracted by x.
C6_UpdateRetractsByX ==
    last.op = "update"
        => /\ last.X = VectorToConfig(last.arg, DOMAIN last.before)
           /\ theta_ = retract(last.before,
                               VectorToConfig(last.arg, DOMAIN last.before))

\* C7: updatePreconditioned(y) hands the direct update the vector y mapped
\* back into the graph's coordinates through the preconditioner.
C7_PreconditionedMapsBack ==
    last.op = "updatePreconditioned"
        => last.x = NativeCoordinates(last.arg)

Priors(g) == {i \in 1..Len(g) : g[i].type = "prior"}

\* The anchoring prior of a graph for an initial estimate: the last factor,
\* the only prior, on the first key with that key's value, unit noise of
\* dimension 3; the factors before it are the loaded ones.
Anchored(g, theta) ==
    /\ Priors(g) = {Len(g)}
    /\ SubSeq(g, 1, Len(g) - 1) = Odometry(DOMAIN theta)
    /\ g[Len(g)].model = [type |-> "Unit", dim |-> 3]
    /\ DOMAIN theta # {}
         => /\ g[Len(g)].key \in DOMAIN theta
            /\ \A j \in DOMAIN theta : g[Len(g)].key <= j
            /\ g[Len(g)].prior = theta[g[Len(g)].key]

\* C8: the constructor loads, then adds exactly one anchoring prior, then
\* initializes the solver: the solver is only ever initialized with a graph
\* that holds the prior, and no update happens before initialization.
C8_ConstructionOrder ==
    /\ pc = "start" => graph_ = <<>> /\ ~solver_.initialized
    /\ pc = "loaded" => Priors(graph_) = {} /\ ~solver_.initialized
    /\ pc = "priorAdded" => Anchored(graph_, theta_) /\ ~solver_.initialized
    /\ solver_.initialized
         => /\ pc = "ready"
            /\ solver_.graph = graph_
            /\ Anchored(solver_.graph, solver_.theta)
    /\ last.op # "none" => solver_.initialized

\* C8 witness: an optimizer built on two poses with different initial
\* values is initialized and has taken an update.
C8_Witness ==
    /\ pc = "ready"
    /\ solver_.initialized
    /\ Cardinality(DOMAIN solver_.theta) = 2
    /\ \E j, k \in DOMAIN solver_.theta : solver_.theta[j] # solver_.theta[k]
    /\ last.op = "update"

(***************************************************************************)
(* Properties of CalibratedCamera::project (under SpecCam)                 *)
(***************************************************************************)

\* The point of the last project call in camera coordinates
CameraPoint == transform_to(pose_, projected.point)

\* C9: project fails with the CheiralityException on every point whose
\* depth in camera coordinates is zero or negative, and returns the
\* normalized projection on every point of positive depth.
C9_Cheirality ==
    projected.op = "project"
        => /\ CameraPoint[3] <= 0
                => projected.result = Thrown("CheiralityException")
           /\ CameraPoint[3] > 0
                => projected.result =
                     Returned([x |-> <<CameraPoint[1], CameraPoint[3]>>,
                               y |-> <<CameraPoint[2], CameraPoint[3]>>])

\* C9 witness: a point on the camera's plane of zero depth, away from the
\* camera centre, was projected by a rotated camera and the call threw.
C9_Witness ==
    /\ projected.op = "project"
    /\ pose_.R[1] # <<1, 0, 0>>
    /\ CameraPoint[3] = 0
    /\ CameraPoint[1] # 0
    /\ projected.result = Thrown("CheiralityException")

=============================================================================
